---- MODULE Spec2Model ----
(***************************************************************************)
(* Model of project-file-fetch: the Rentman API client (request_api.py)    *)
(* and the fetch / copy handlers of the desktop application (app.py).      *)
(*                                                                         *)
(* Python strings are sequences of one-character strings, so that split,   *)
(* strip, str() and re.split are computed and not assumed.  Python values  *)
(* are tagged pairs <<tag, payload>>.                                      *)
(***************************************************************************)
EXTENDS Integers, Sequences, FiniteSets, TLC

(***************************************************************************)
(* Bounds of the model.                                                    *)
(***************************************************************************)
MaxLimit == 3          \* small page sizes tried besides the default limit
MaxRecords == 7        \* size of the remote resource for the small limits
MaxBatches == 3        \* id lists of up to MaxBatches * _BATCH_SIZE ids
MaxItems == 2          \* equipment records handed to extract_serial_ids
MaxFetches == 2        \* fetch workers started in one run of the application
MaxCopies == 2         \* copy workers started in one run of the application
MaxSerials == 2        \* serial-number records handed to _display_results
MaxFiles == 3          \* entries of the source folder

(***************************************************************************)
(* Program constants.                                                      *)
(***************************************************************************)
_BATCH_SIZE == 100
DefaultLimit == 100

(***************************************************************************)
(* Python values.                                                          *)
(***************************************************************************)
PyNone == <<"none", 0>>
PyStr(s) == <<"str", s>>
PyInt(n) == <<"int", n>>
PyList(l) == <<"list", l>>
PyDict(f) == <<"dict", f>>
Tag(v) == v[1]
Val(v) == v[2]

\* dict.get(key): the value, or None when the key is absent
Get(d, key) == IF key \in DOMAIN Val(d) THEN Val(d)[key] ELSE PyNone

Digit(n) == CASE n = 0 -> "0" [] n = 1 -> "1" [] n = 2 -> "2" [] n = 3 -> "3"
              [] n = 4 -> "4" [] n = 5 -> "5" [] n = 6 -> "6" [] n = 7 -> "7"
              [] n = 8 -> "8" [] n = 9 -> "9"

RECURSIVE NatToStr(_)
NatToStr(n) == IF n < 10 THEN <<Digit(n)>> ELSE NatToStr(n \div 10) \o <<Digit(n % 10)>>

\* str(v) for a str or an int
Str(v) == IF Tag(v) = "str" THEN Val(v)
          ELSE IF Val(v) < 0 THEN <<"-">> \o NatToStr(0 - Val(v)) ELSE NatToStr(Val(v))

Whitespace == {" ", "\t"}

RECURSIVE LStrip(_)
LStrip(s) == IF s # <<>> /\ Head(s) \in Whitespace THEN LStrip(Tail(s)) ELSE s

RECURSIVE RStrip(_)
RStrip(s) == IF s # <<>> /\ s[Len(s)] \in Whitespace
             THEN RStrip(SubSeq(s, 1, Len(s) - 1)) ELSE s

\* str.strip()
Strip(s) == RStrip(LStrip(s))

\* str.split(sep): cur is the part being read, one part per separator plus one
RECURSIVE SplitFrom(_, _, _)
SplitFrom(s, sep, cur) ==
    IF s = <<>> THEN <<cur>>
    ELSE IF Head(s) = sep THEN <<cur>> \o SplitFrom(Tail(s), sep, <<>>)
    ELSE SplitFrom(Tail(s), sep, Append(cur, Head(s)))

Split(s, sep) == SplitFrom(s, sep, <<>>)

\* requests.Response.ok: raise_for_status() raises for 400 <= status < 600
Ok(status) == ~(400 <= status /\ status < 600)

Statuses == {200, 404, 500}

EnvelopeKeys == <<"data", "results", "items", "serialnumbers", "rows">>

RECURSIVE ProbeEnvelope(_, _)
ProbeEnvelope(data, k) ==
    IF k > Len(EnvelopeKeys) THEN <<>>
    ELSE IF Tag(Get(data, EnvelopeKeys[k])) = "list" THEN Val(Val(data)[EnvelopeKeys[k]])
    ELSE ProbeEnvelope(data, k + 1)

\* RentmanClient._extract_items
_extract_items(data) ==
    IF Tag(data) = "list" THEN Val(data)
    ELSE IF Tag(data) = "dict" THEN ProbeEnvelope(data, 1)
    ELSE <<>>

\* The shapes of response body the remote API is modelled to answer with
Envelopes == {"list", "data", "rows", "items_after_null_data"}

Wrap(env, recs) ==
    CASE env = "list" -> PyList(recs)
      [] env = "data" -> PyDict([k \in {"data"} |-> PyList(recs)])
      [] env = "rows" -> PyDict([k \in {"rows"} |-> PyList(recs)])
      [] env = "items_after_null_data" ->
            PyDict([k \in {"data", "items"} |->
                        IF k = "data" THEN PyNone ELSE PyList(recs)])

Min(a, b) == IF a < b THEN a ELSE b

Range(s) == {s[i] : i \in DOMAIN s}

VARIABLES
    \* _fetch_all_pages
    total,          \* number of records the remote resource holds
    envelope,       \* shape of the bodies the remote API answers with
    limit, offset, all_items,
    page_pc,        \* "idle" | "paging" | "returned" | "raised"
    page_ret,       \* the list returned to the caller (<<>> until then)
    page_log        \* one entry per request issued: [offset, status, n]

pageVars == <<total, envelope, limit, offset, all_items, page_pc, page_ret, page_log>>

VARIABLES
    \* get_serial_number_info
    ids, start, all_details,
    batch_pc,       \* "idle" | "batching" | "returned" | "raised"
    batch_ret,      \* the list returned to the caller (<<>> until then)
    batch_log       \* one entry per request issued: [batch, status]

batchVars == <<ids, start, all_details, batch_pc, batch_ret, batch_log>>

VARIABLES
    \* extract_serial_ids
    equipment,      \* the argument items
    ex_next,        \* index in equipment of the record the outer loop reads next
    ex_ids,         \* the local list ids
    ex_pc,          \* "idle" | "collecting" | "returned"
    ex_out          \* the list returned

extractVars == <<equipment, ex_next, ex_ids, ex_pc, ex_out>>

VARIABLES
    \* App (app.py)
    token_set,      \* RENTMAN_TOKEN is not empty
    project_entry,  \* text of the project-id entry
    folder_var,     \* text of the source-folder entry
    fetch_btn,      \* "normal" | "disabled"
    copy_btn,       \* "normal" | "disabled"
    dialog,         \* title of the message box on screen, "none" without one
    main_pc,        \* what the Tk main thread is in the middle of
    after_queue,    \* callbacks handed to self.after(0, ...), oldest first
    fetch_threads,  \* the _fetch_data threads alive
    copy_threads,   \* the _copy_files threads alive
    serial_table,   \* the records loaded in the Serial Numbers table
    match_objs,     \* the set objects _display_results has created, oldest first
    _match_values,  \* index in match_objs of self._match_values, 0: attribute not set
    fs,             \* the entries of the source folder, by name
    fetch_log,      \* per fetch started: its project and how it ended
    n_copy,         \* number of copy workers started
    rmtree_log      \* the directories handed to shutil.rmtree so far

appVars == <<token_set, project_entry, folder_var, fetch_btn, copy_btn, dialog, main_pc,
             after_queue, fetch_threads, copy_threads, serial_table, match_objs,
             _match_values, fs, fetch_log, n_copy, rmtree_log>>

clientVars == <<pageVars, batchVars, extractVars>>

vars == <<pageVars, batchVars, extractVars, appVars>>

IdlePage ==
    /\ total = 0 /\ limit = DefaultLimit /\ offset = 0 /\ all_items = <<>>
    /\ page_pc = "idle" /\ page_ret = <<>> /\ page_log = <<>>

MainIdle == [at |-> "idle", serial_numbers |-> <<>>, next |-> 1, then |-> "return"]

\* App.__init__, lines 191-253: no fetch made, self._match_values not assigned
IdleApp ==
    /\ token_set = TRUE /\ project_entry = <<>> /\ folder_var = ""
    /\ fetch_btn = "normal" /\ copy_btn = "normal" /\ dialog = "none"
    /\ main_pc = MainIdle /\ after_queue = <<>>
    /\ fetch_threads = {} /\ copy_threads = {}
    /\ serial_table = <<>> /\ match_objs = <<>> /\ _match_values = 0
    /\ fs = <<>> /\ fetch_log = <<>> /\ n_copy = 0 /\ rmtree_log = {}

IdleExtract ==
    /\ equipment = <<>> /\ ex_next = 1 /\ ex_ids = <<>> /\ ex_pc = "idle" /\ ex_out = <<>>

IdleBatch ==
    /\ ids = <<>> /\ start = 0 /\ all_details = <<>>
    /\ batch_pc = "idle" /\ batch_ret = <<>> /\ batch_log = <<>>

(***************************************************************************)
(* RentmanClient._fetch_all_pages                                          *)
(***************************************************************************)

\* Record i of the resource is the number i; the API serves them in order.
ServerPage(off, lim) ==
    [i \in 1..(IF off >= total THEN 0 ELSE Min(lim, total - off)) |-> off + i]

PageScenarios ==
    ((1..MaxLimit) \X (0..MaxRecords))
        \cup ({DefaultLimit} \X {0, 100, 200, 237})

InitPage ==
    /\ \E sc \in PageScenarios : limit = sc[1] /\ total = sc[2]
    /\ envelope \in Envelopes
    /\ offset = 0
    /\ all_items = <<>>
    /\ page_pc = "paging"
    /\ page_ret = <<>>
    /\ page_log = <<>>

\* lines 138-144: the response is not ok, raise_for_status() raises
PageRequestFails ==
    /\ page_pc = "paging"
    /\ \E status \in Statuses :
        /\ ~Ok(status)
        /\ page_log' = Append(page_log, [offset |-> offset, status |-> status, n |-> 0])
    /\ page_pc' = "raised"
    /\ UNCHANGED <<total, envelope, limit, offset, all_items, page_ret>>
    /\ UNCHANGED <<batchVars, extractVars, appVars>>

\* PageStep without the short-page test of line 152
PageStepNoShortBreak(items) ==
    IF items = <<>> THEN <<all_items, offset, "returned">>
    ELSE <<all_items \o items, offset + limit, "paging">>

\* PageStep with the test of line 152 written <=
PageStepStopsOnFullPage(items) ==
    IF items = <<>> THEN <<all_items, offset, "returned">>
    ELSE IF Len(items) <= limit THEN <<all_items \o items, offset, "returned">>
    ELSE <<all_items \o items, offset + limit, "paging">>

\* The loop body after an ok response: the new <<all_items, offset, pc>>
PageStep(items) ==
    IF items = <<>> THEN <<all_items, offset, "returned">>
    ELSE IF Len(items) < limit THEN <<all_items \o items, offset, "returned">>
    ELSE <<all_items \o items, offset + limit, "paging">>

\* lines 136-157: one iteration of the loop on an ok response
PageRequestOk ==
    /\ page_pc = "paging"
    /\ \E status \in Statuses :
        /\ Ok(status)
        /\ LET items == _extract_items(Wrap(envelope, ServerPage(offset, limit)))
               nxt == PageStep(items)
           IN /\ page_log' = Append(page_log,
                                [offset |-> offset, status |-> status, n |-> Len(items)])
              /\ all_items' = nxt[1]
              /\ offset' = nxt[2]
              /\ page_pc' = nxt[3]
              /\ page_ret' = IF nxt[3] = "returned" THEN nxt[1] ELSE page_ret
    /\ UNCHANGED <<total, envelope, limit>>
    /\ UNCHANGED <<batchVars, extractVars, appVars>>

(***************************************************************************)
(* RentmanClient.get_serial_number_info                                    *)
(***************************************************************************)

\* Id k of the list is the number k; the detail record of id k is k as well.
InitBatch ==
    /\ \E n \in 0..(MaxBatches * _BATCH_SIZE) : ids = [k \in 1..n |-> k]
    /\ start = 0
    /\ all_details = <<>>
    /\ batch_pc = "batching"
    /\ batch_ret = <<>>
    /\ batch_log = <<>>

\* Batch with a slice one id short
BatchOneShort == SubSeq(ids, start + 1, Min(start + _BATCH_SIZE - 1, Len(ids)))

\* line 53: ids[start : start + _BATCH_SIZE]
Batch == SubSeq(ids, start + 1, Min(start + _BATCH_SIZE, Len(ids)))

\* lines 45-47: no ids, no request
BatchShortCircuit ==
    /\ batch_pc = "batching"
    /\ ids = <<>>
    /\ batch_pc' = "returned"
    /\ batch_ret' = <<>>
    /\ UNCHANGED <<ids, start, all_details, batch_log, envelope>>
    /\ UNCHANGED <<total, limit, offset, all_items, page_pc, page_ret, page_log>>
    /\ UNCHANGED <<extractVars, appVars>>

\* BatchRequest404 with the 404 treated like any other failure
BatchRequest404Raises ==
    /\ batch_pc = "batching"
    /\ start < Len(ids)
    /\ batch_log' = Append(batch_log, [batch |-> Batch, status |-> 404])
    /\ batch_pc' = "raised"
    /\ UNCHANGED <<ids, start, all_details, batch_ret, envelope>>
    /\ UNCHANGED <<total, limit, offset, all_items, page_pc, page_ret, page_log>>
    /\ UNCHANGED <<extractVars, appVars>>

\* lines 52-65: the batch is answered 404 and skipped
BatchRequest404 ==
    /\ batch_pc = "batching"
    /\ start < Len(ids)
    /\ batch_log' = Append(batch_log, [batch |-> Batch, status |-> 404])
    /\ start' = start + _BATCH_SIZE
    /\ UNCHANGED <<ids, all_details, batch_pc, batch_ret, envelope>>
    /\ UNCHANGED <<total, limit, offset, all_items, page_pc, page_ret, page_log>>
    /\ UNCHANGED <<extractVars, appVars>>

\* BatchRequestFails with the error logged and the loop going on
BatchRequestFailsGoesOn ==
    /\ batch_pc = "batching"
    /\ start < Len(ids)
    /\ \E status \in Statuses :
        /\ status # 404
        /\ ~Ok(status)
        /\ batch_log' = Append(batch_log, [batch |-> Batch, status |-> status])
    /\ start' = start + _BATCH_SIZE
    /\ UNCHANGED <<ids, all_details, batch_pc, batch_ret, envelope>>
    /\ UNCHANGED <<total, limit, offset, all_items, page_pc, page_ret, page_log>>
    /\ UNCHANGED <<extractVars, appVars>>

\* lines 52-71: the batch is answered with another status that is not ok
BatchRequestFails ==
    /\ batch_pc = "batching"
    /\ start < Len(ids)
    /\ \E status \in Statuses :
        /\ status # 404
        /\ ~Ok(status)
        /\ batch_log' = Append(batch_log, [batch |-> Batch, status |-> status])
    /\ batch_pc' = "raised"
    /\ UNCHANGED <<ids, start, all_details, batch_ret, envelope>>
    /\ UNCHANGED <<total, limit, offset, all_items, page_pc, page_ret, page_log>>
    /\ UNCHANGED <<extractVars, appVars>>

\* lines 73-78: _extract_items returns a list on every path, so the
\* isinstance test holds and the accumulator is extended
Accumulate(details, items) == details \o items

\* lines 52-78: the batch is answered ok
BatchRequestOk ==
    /\ batch_pc = "batching"
    /\ start < Len(ids)
    /\ \E status \in Statuses :
        /\ status # 404
        /\ Ok(status)
        /\ batch_log' = Append(batch_log, [batch |-> Batch, status |-> status])
    /\ all_details' = Accumulate(all_details, _extract_items(Wrap(envelope, Batch)))
    /\ start' = start + _BATCH_SIZE
    /\ UNCHANGED <<ids, batch_pc, batch_ret, envelope>>
    /\ UNCHANGED <<total, limit, offset, all_items, page_pc, page_ret, page_log>>
    /\ UNCHANGED <<extractVars, appVars>>

\* lines 80-81: the loop is exhausted
BatchReturn ==
    /\ batch_pc = "batching"
    /\ ids # <<>>
    /\ start >= Len(ids)
    /\ batch_pc' = "returned"
    /\ batch_ret' = all_details
    /\ UNCHANGED <<ids, start, all_details, batch_log, envelope>>
    /\ UNCHANGED <<total, limit, offset, all_items, page_pc, page_ret, page_log>>
    /\ UNCHANGED <<extractVars, appVars>>

(***************************************************************************)
(* One call on a RentmanClient: either of the two fetchers.                *)
(***************************************************************************)
InitClient ==
    \/ InitPage /\ IdleBatch /\ IdleExtract /\ IdleApp
    \/ IdlePage /\ InitBatch /\ IdleExtract /\ IdleApp /\ envelope \in Envelopes

NextClient ==
    \/ PageRequestFails
    \/ PageRequestOk
    \/ BatchShortCircuit
    \/ BatchRequest404
    \/ BatchRequestFails
    \/ BatchRequestOk
    \/ BatchReturn

SpecClient == InitClient /\ [][NextClient]_vars

(***************************************************************************)
(* RentmanClient.extract_serial_ids                                        *)
(***************************************************************************)
candidate_keys ==
    <<"serial_number_ids", "serial_number_id", "serialnumber_ids", "serialnumber_id",
      "serialnumber", "serial_numbers", "serial_numbers_ids", "id">>

NotNone(v) == v # PyNone

\* line 110: [v.strip() for v in parts if v.strip()]
RECURSIVE StrippedParts(_)
StrippedParts(parts) ==
    IF parts = <<>> THEN <<>>
    ELSE (IF Strip(Head(parts)) # <<>> THEN <<Strip(Head(parts))>> ELSE <<>>)
            \o StrippedParts(Tail(parts))

\* line 112: [str(v) for v in val if v is not None]
RECURSIVE StrOfNonNull(_)
StrOfNonNull(val) ==
    IF val = <<>> THEN <<>>
    ELSE (IF Head(val) # PyNone THEN <<Str(Head(val))>> ELSE <<>>)
            \o StrOfNonNull(Tail(val))

\* lines 108-114: the ids one value gives
IdsOfValue(val) ==
    IF Tag(val) = "str" THEN StrippedParts(Split(Val(val), ","))
    ELSE IF Tag(val) = "list" THEN StrOfNonNull(Val(val))
    ELSE <<Str(val)>>

\* ProbeKeys without the break of line 115: every non-null key contributes
RECURSIVE ProbeKeysNoBreak(_, _)
ProbeKeysNoBreak(item, k) ==
    IF k > Len(candidate_keys) THEN <<>>
    ELSE IF Get(item, candidate_keys[k]) = PyNone THEN ProbeKeysNoBreak(item, k + 1)
    ELSE IdsOfValue(Get(item, candidate_keys[k])) \o ProbeKeysNoBreak(item, k + 1)

\* lines 104-115: the keys are probed in order up to the first non-null value
RECURSIVE ProbeKeys(_, _)
ProbeKeys(item, k) ==
    IF k > Len(candidate_keys) THEN <<>>
    ELSE IF Get(item, candidate_keys[k]) = PyNone THEN ProbeKeys(item, k + 1)
    ELSE IdsOfValue(Get(item, candidate_keys[k]))

\* lines 102-115: what one element of items appends to ids
IdsOfItem(item) == IF Tag(item) # "dict" THEN <<>> ELSE ProbeKeys(item, 1)

\* lines 117-122: first occurrences of the non-empty ids, in order
RECURSIVE Dedup(_, _)
Dedup(s, seen) ==
    IF s = <<>> THEN <<>>
    ELSE IF Head(s) # <<>> /\ Head(s) \notin seen
         THEN <<Head(s)>> \o Dedup(Tail(s), seen \cup {Head(s)})
         ELSE Dedup(Tail(s), seen)

\* Equipment records the API is modelled to answer with
EquipmentSamples ==
    { PyDict([k \in {"serial_number_ids"} |-> PyStr(<<"1", ",", "2">>)]),
      PyDict([k \in {"serial_number_ids", "id"} |->
                 IF k = "id" THEN PyInt(9) ELSE PyStr(<<" ", "2", " ", ",", "1">>)]),
      PyDict([k \in {"serial_number_id", "serialnumber_ids"} |->
                 IF k = "serial_number_id" THEN PyNone
                 ELSE PyList(<<PyInt(1), PyNone, PyStr(<<"3">>)>>)]),
      PyDict([k \in {"id"} |-> PyInt(12)]),
      PyDict([k \in {"name"} |-> PyStr(<<"x">>)]),
      PyDict([k \in {"serial_numbers"} |-> PyList(<<PyStr(<<" ">>), PyStr(<<>>), PyStr(<<"1">>)>>)]),
      PyDict([k \in {"serial_number_ids", "id"} |->
                 IF k = "id" THEN PyInt(3) ELSE PyStr(<<>>)]),
      PyDict([k \in {"serialnumber"} |-> PyStr(<<",", " ", ",", "2", ",">>)]),
      PyInt(5) }

RECURSIVE SeqsUpTo(_, _)
SeqsUpTo(S, n) ==
    IF n = 0 THEN {<<>>}
    ELSE LET shorter == SeqsUpTo(S, n - 1)
         IN shorter \cup {Append(s, x) : s \in shorter, x \in S}

InitExtract ==
    /\ equipment \in SeqsUpTo(EquipmentSamples, MaxItems)
    /\ ex_next = 1
    /\ ex_ids = <<>>
    /\ ex_pc = "collecting"
    /\ ex_out = <<>>
    /\ IdlePage /\ IdleBatch /\ IdleApp /\ envelope = "list"

\* lines 101-115: one iteration of the loop over items
ExtractItem ==
    /\ ex_pc = "collecting"
    /\ ex_next <= Len(equipment)
    /\ ex_ids' = ex_ids \o IdsOfItem(equipment[ex_next])
    /\ ex_next' = ex_next + 1
    /\ UNCHANGED <<equipment, ex_pc, ex_out>>
    /\ UNCHANGED <<pageVars, batchVars, appVars>>

\* lines 117-125: the ids are deduplicated and returned
ExtractReturn ==
    /\ ex_pc = "collecting"
    /\ ex_next > Len(equipment)
    /\ ex_out' = Dedup(ex_ids, {})
    /\ ex_pc' = "returned"
    /\ UNCHANGED <<equipment, ex_next, ex_ids>>
    /\ UNCHANGED <<pageVars, batchVars, appVars>>

NextExtract == ExtractItem \/ ExtractReturn

SpecExtract == InitExtract /\ [][NextExtract]_vars

(***************************************************************************)
(* App: the fetch handlers (app.py)                                        *)
(***************************************************************************)
Digits == {"0", "1", "2", "3", "4", "5", "6", "7", "8", "9"}

DigitValue(c) == CHOOSE n \in 0..9 : Digit(n) = c

\* int(text) succeeds; of the texts modelled, those made of digits
IsInt(text) == text # <<>> /\ \A i \in DOMAIN text : text[i] \in Digits

RECURSIVE IntOf(_)
IntOf(text) ==
    IF text = <<>> THEN 0
    ELSE IntOf(SubSeq(text, 1, Len(text) - 1)) * 10 + DigitValue(text[Len(text)])

\* Texts the user is modelled to type in the project-id entry
EntryTexts == {<<>>, <<"1">>, <<"2">>, <<"x">>}

\* Folders the user is modelled to choose; "photos" is the one that exists
Folders == {"", "photos"}
\* and it stops existing when a copy worker removes the tree of one of its
\* ancestors
IsDir(folder) ==
    /\ folder = "photos"
    /\ ~\E d \in rmtree_log : ~d.abs /\ d.up > 0 /\ d.down = <<>>

\* Serial-number records the API is modelled to answer with
SerialA1 ==
    PyDict([k \in {"id", "qrcodes"} |->
               IF k = "id" THEN PyStr(<<"A", "1">>) ELSE PyStr(<<"F", "1", ",", "R", "2">>)])
Serial42 ==
    PyDict([k \in {"id", "displayname", "name"} |->
               CASE k = "id" -> PyInt(42)
                 [] k = "displayname" -> PyStr(<<" ", "c", "a", "m", " ", ",", " ", "7">>)
                 [] k = "name" -> PyStr(<<"z">>)])
SerialF ==
    PyDict([k \in {"ref", "serial", "qrcodes"} |->
               CASE k = "ref" -> PyNone
                 [] k = "serial" -> PyStr(<<"F", "1", "0", "5", "3", "0", "4">>)
                 [] k = "qrcodes" -> PyStr(<<>>)])
SerialBlank ==
    PyDict([k \in {"qrcodes", "ref"} |->
               IF k = "qrcodes" THEN PyStr(<<",", " ", ",">>) ELSE PyStr(<<"a", "_", "b">>)])
SerialOther == PyDict([k \in {"name"} |-> PyStr(<<"n">>)])

SerialSamples == {SerialA1, Serial42, SerialF, SerialBlank, SerialOther}

\* What a fetch of a project that succeeds hands to _display_results
ProjectSerials(project_id) ==
    CASE project_id = 1 -> <<Serial42, SerialF>>
      [] OTHER -> <<>>

MatchFields == <<"id", "qrcodes", "serial", "displayname", "ref">>

\* AddParts without the strip of line 333
RECURSIVE AddPartsUnstripped(_, _)
AddPartsUnstripped(parts, values) ==
    IF parts = <<>> THEN values
    ELSE AddPartsUnstripped(Tail(parts),
            IF Head(parts) # <<>> THEN values \cup {Head(parts)} ELSE values)

\* lines 332-335: every part, stripped, is added unless it is empty
RECURSIVE AddParts(_, _)
AddParts(parts, values) ==
    IF parts = <<>> THEN values
    ELSE AddParts(Tail(parts),
            IF Strip(Head(parts)) # <<>> THEN values \cup {Strip(Head(parts))} ELSE values)

\* lines 327-335: the fields of one record, from field k on
RECURSIVE AddFields(_, _, _)
AddFields(sn, k, values) ==
    IF k > Len(MatchFields) THEN values
    ELSE IF Get(sn, MatchFields[k]) = PyNone THEN AddFields(sn, k + 1, values)
    ELSE AddFields(sn, k + 1, AddParts(Split(Str(Get(sn, MatchFields[k])), ","), values))

Callback(kind) ==
    [kind |-> kind, serial_numbers |-> <<>>, fetch |-> 0, copied |-> 0, scanned |-> 0,
     dest |-> <<>>, match_set |-> 0]

\* No handler runs on the main thread and no message box is open
MainFree == main_pc.at = "idle" /\ dialog = "none"

ShowDialog(title, then) ==
    /\ dialog' = title
    /\ main_pc' = [MainIdle EXCEPT !.at = "dialog", !.then = then]

\* The user types in the project-id entry
EditProjectEntry ==
    /\ MainFree
    /\ \E text \in EntryTexts : text # project_entry /\ project_entry' = text
    /\ UNCHANGED <<token_set, folder_var, fetch_btn, copy_btn, dialog, main_pc, after_queue,
                   fetch_threads, copy_threads, serial_table, match_objs, _match_values,
                   fs, fetch_log, n_copy>>
    /\ UNCHANGED <<clientVars, rmtree_log>>

\* lines 355-358: the user chooses a folder
_browse_folder ==
    /\ MainFree
    /\ \E path \in Folders : path # "" /\ path # folder_var /\ folder_var' = path
    /\ UNCHANGED <<token_set, project_entry, fetch_btn, copy_btn, dialog, main_pc,
                   after_queue, fetch_threads, copy_threads, serial_table, match_objs,
                   _match_values, fs, fetch_log, n_copy>>
    /\ UNCHANGED <<clientVars, rmtree_log>>

\* lines 257-288
_on_fetch ==
    /\ \/ /\ Strip(project_entry) = <<>>
          /\ ShowDialog("Missing input", "return")
          /\ UNCHANGED <<fetch_btn, fetch_threads, fetch_log>>
       \/ /\ Strip(project_entry) # <<>>
          /\ ~token_set
          /\ ShowDialog("No API token", "return")
          /\ UNCHANGED <<fetch_btn, fetch_threads, fetch_log>>
       \/ /\ Strip(project_entry) # <<>>
          /\ token_set
          /\ ~IsInt(Strip(project_entry))
          /\ ShowDialog("Invalid ID", "return")
          /\ UNCHANGED <<fetch_btn, fetch_threads, fetch_log>>
       \/ /\ Strip(project_entry) # <<>>
          /\ token_set
          /\ IsInt(Strip(project_entry))
          /\ Len(fetch_log) < MaxFetches
          /\ fetch_btn' = "disabled"
          /\ fetch_threads' = fetch_threads \cup
                {[id |-> Len(fetch_log) + 1, project_id |-> IntOf(Strip(project_entry))]}
          /\ fetch_log' = Append(fetch_log,
                [project |-> IntOf(Strip(project_entry)), outcome |-> "running"])
          /\ UNCHANGED <<dialog, main_pc>>
    /\ UNCHANGED <<token_set, project_entry, folder_var, copy_btn, after_queue,
                   copy_threads, serial_table, match_objs, _match_values, fs, n_copy>>
    /\ UNCHANGED <<clientVars, rmtree_log>>

\* line 198: the Fetch button, which Tk does not invoke while it is disabled
ClickFetch == MainFree /\ fetch_btn = "normal" /\ _on_fetch

\* line 195: the Return key in the project-id entry
PressReturn == MainFree /\ _on_fetch

\* lines 290-304: the worker's calls succeed and it schedules _display_results
FetchReturns ==
    /\ \E w \in fetch_threads :
        /\ after_queue' = Append(after_queue,
              [Callback("display") EXCEPT !.serial_numbers = ProjectSerials(w.project_id),
                                          !.fetch = w.id])
        /\ fetch_threads' = fetch_threads \ {w}
        /\ fetch_log' = [fetch_log EXCEPT ![w.id].outcome = "ok"]
    /\ UNCHANGED <<token_set, project_entry, folder_var, fetch_btn, copy_btn, dialog,
                   main_pc, copy_threads, serial_table, match_objs, _match_values, fs,
                   n_copy>>
    /\ UNCHANGED <<clientVars, rmtree_log>>

\* lines 306-314: a call of the worker raises and it schedules the error dialog
FetchRaises ==
    /\ \E w \in fetch_threads :
        /\ after_queue' = Append(after_queue, [Callback("fetch_error") EXCEPT !.fetch = w.id])
        /\ fetch_threads' = fetch_threads \ {w}
        /\ fetch_log' = [fetch_log EXCEPT ![w.id].outcome = "failed"]
    /\ UNCHANGED <<token_set, project_entry, folder_var, fetch_btn, copy_btn, dialog,
                   main_pc, copy_threads, serial_table, match_objs, _match_values, fs,
                   n_copy>>
    /\ UNCHANGED <<clientVars, rmtree_log>>

\* lines 320-325: _display_results starts, self._match_values is a new empty set
DisplayBegin ==
    /\ MainFree
    /\ after_queue # <<>>
    /\ Head(after_queue).kind = "display"
    /\ after_queue' = Tail(after_queue)
    /\ serial_table' = Head(after_queue).serial_numbers
    /\ match_objs' = Append(match_objs,
          [values |-> {}, fetch |-> Head(after_queue).fetch, complete |-> FALSE])
    /\ _match_values' = Len(match_objs) + 1
    /\ main_pc' = [MainIdle EXCEPT !.at = "display",
                                   !.serial_numbers = Head(after_queue).serial_numbers]
    /\ UNCHANGED <<token_set, project_entry, folder_var, fetch_btn, copy_btn, dialog,
                   fetch_threads, copy_threads, fs, fetch_log, n_copy>>
    /\ UNCHANGED <<clientVars, rmtree_log>>

\* lines 326-335: one iteration of the loop over serial_numbers
DisplayRecord ==
    /\ main_pc.at = "display"
    /\ main_pc.next <= Len(main_pc.serial_numbers)
    /\ match_objs' = [match_objs EXCEPT ![_match_values].values =
                          AddFields(main_pc.serial_numbers[main_pc.next], 1, @)]
    /\ main_pc' = [main_pc EXCEPT !.next = @ + 1]
    /\ UNCHANGED <<token_set, project_entry, folder_var, fetch_btn, copy_btn, dialog,
                   after_queue, fetch_threads, copy_threads, serial_table, _match_values,
                   fs, fetch_log, n_copy>>
    /\ UNCHANGED <<clientVars, rmtree_log>>

\* lines 336-345: discard(""), the status line, _reset_button (line 351)
DisplayEnd ==
    /\ main_pc.at = "display"
    /\ main_pc.next > Len(main_pc.serial_numbers)
    /\ match_objs' = [match_objs EXCEPT ![_match_values].values = @ \ {<<>>},
                                        ![_match_values].complete = TRUE]
    /\ fetch_btn' = "normal"
    /\ main_pc' = MainIdle
    /\ UNCHANGED <<token_set, project_entry, folder_var, copy_btn, dialog, after_queue,
                   fetch_threads, copy_threads, serial_table, _match_values, fs,
                   fetch_log, n_copy>>
    /\ UNCHANGED <<clientVars, rmtree_log>>

\* lines 308-314: the callback of a failed fetch opens its message box
RunFetchError ==
    /\ MainFree
    /\ after_queue # <<>>
    /\ Head(after_queue).kind = "fetch_error"
    /\ after_queue' = Tail(after_queue)
    /\ ShowDialog("API Error", "reset_fetch")
    /\ UNCHANGED <<token_set, project_entry, folder_var, fetch_btn, copy_btn,
                   fetch_threads, copy_threads, serial_table, match_objs, _match_values,
                   fs, fetch_log, n_copy>>
    /\ UNCHANGED <<clientVars, rmtree_log>>

\* lines 306-314: the lambda reads exc, the name bound by `except ... as exc`,
\* which the worker unbinds on leaving the except block.  The callback runs on
\* the main thread while the worker runs on: when it comes after the worker
\* has left the block, str(exc) raises NameError inside the callback before
\* showerror is called, and neither the dialog nor _reset_button happens
RunFetchErrorUnbound ==
    /\ MainFree
    /\ after_queue # <<>>
    /\ Head(after_queue).kind = "fetch_error"
    /\ after_queue' = Tail(after_queue)
    /\ UNCHANGED <<token_set, project_entry, folder_var, fetch_btn, copy_btn, dialog,
                   main_pc, fetch_threads, copy_threads, serial_table, match_objs,
                   _match_values, fs, fetch_log, n_copy>>
    /\ UNCHANGED <<clientVars, rmtree_log>>

\* The user closes the message box and the handler that opened it goes on:
\* _reset_button (line 312), the copy button (line 432), or a plain return
DismissDialog ==
    /\ dialog # "none"
    /\ dialog' = "none"
    /\ main_pc' = MainIdle
    /\ fetch_btn' = IF main_pc.then = "reset_fetch" THEN "normal" ELSE fetch_btn
    /\ copy_btn' = IF main_pc.then = "reset_copy" THEN "normal" ELSE copy_btn
    /\ UNCHANGED <<token_set, project_entry, folder_var, after_queue, fetch_threads,
                   copy_threads, serial_table, match_objs, _match_values, fs, fetch_log,
                   n_copy>>
    /\ UNCHANGED <<clientVars, rmtree_log>>

(***************************************************************************)
(* _display_results on its own: any list of serial-number records          *)
(***************************************************************************)
InitMatch ==
    /\ IdlePage /\ IdleBatch /\ IdleExtract /\ envelope = "list"
    /\ token_set = TRUE /\ project_entry = <<"1">> /\ folder_var = ""
    /\ fetch_btn = "disabled" /\ copy_btn = "normal" /\ dialog = "none"
    /\ main_pc = MainIdle
    /\ \E sns \in SeqsUpTo(SerialSamples, MaxSerials) :
          after_queue = <<[Callback("display") EXCEPT !.serial_numbers = sns, !.fetch = 1]>>
    /\ fetch_threads = {} /\ copy_threads = {}
    /\ serial_table = <<>> /\ match_objs = <<>> /\ _match_values = 0
    /\ fs = <<>> /\ fetch_log = <<[project |-> 1, outcome |-> "ok"]>> /\ n_copy = 0
    /\ rmtree_log = {}

NextMatch == DisplayBegin \/ DisplayRecord \/ DisplayEnd

SpecMatch == InitMatch /\ [][NextMatch]_vars

(***************************************************************************)
(* App: the copy handlers (app.py)                                         *)
(***************************************************************************)
\* line 405: the characters of the class [_\-\.\s]
Separators == {"_", "-", "."} \cup Whitespace

\* os.path.splitext(filename)[0]: the name up to its last dot, unless only
\* dots come before that dot
SplitExt(filename) ==
    LET dots == {i \in DOMAIN filename : filename[i] = "."}
        last == CHOOSE i \in dots : \A j \in dots : j <= i
    IN IF dots # {} /\ \E i \in 1..(last - 1) : filename[i] # "."
       THEN SubSeq(filename, 1, last - 1)
       ELSE filename

\* re.split(r'[_\-\.\s]+', s): cur is the part being read, in_run tells that
\* the character before was a separator
RECURSIVE ReSplitFrom(_, _, _)
ReSplitFrom(s, cur, in_run) ==
    IF s = <<>> THEN <<cur>>
    ELSE IF Head(s) \in Separators
         THEN IF in_run THEN ReSplitFrom(Tail(s), cur, TRUE)
              ELSE <<cur>> \o ReSplitFrom(Tail(s), <<>>, TRUE)
    ELSE ReSplitFrom(Tail(s), Append(cur, Head(s)), FALSE)

ReSplit(s) == ReSplitFrom(s, <<>>, FALSE)

\* Matches with the token test alone
MatchesTokensOnly(filename, match_set) ==
    \E i \in DOMAIN ReSplit(SplitExt(filename)) : ReSplit(SplitExt(filename))[i] \in match_set

\* lines 403-407
Matches(filename, match_set) ==
    LET name_no_ext == SplitExt(filename)
        parts == ReSplit(name_no_ext)
    IN (\E i \in DOMAIN parts : parts[i] \in match_set) \/ name_no_ext \in match_set

File == [kind |-> "file", files |-> {}]
Dir(files) == [kind |-> "dir", files |-> files]

\* Entries the source folder is modelled to hold
NameF == <<"F", "1", "0", "5", "3", "0", "4", "_", "p", "h", "o", "t", "o", ".", "j", "p", "g">>
NameU == <<"u", "n", "r", "e", "l", "a", "t", "e", "d", ".", "j", "p", "g">>
NameP == <<"4", "2", ".", "p", "d", "f">>
NameAB == <<"a", "_", "b", ".", "t", "x", "t">>
NameX == <<"x", "-", "4", "2", " ", "y", ".", "p", "n", "g">>
NameH == <<".", "4", "2">>
NameOld == <<"o", "l", "d">>

SampleNames == {NameF, NameU, NameP, NameAB, NameX, NameH, NameOld, <<"1">>, <<"2">>}

\* "old" is a subfolder holding a matching file, "2" a folder left by an
\* earlier copy for project 2 with a stray file in it, "1" a regular file
SampleEntry(name) ==
    CASE name = NameOld -> Dir({NameP})
      [] name = <<"2">> -> Dir({NameU})
      [] OTHER -> File

MatchSetSamples ==
    { {<<"F", "1", "0", "5", "3", "0", "4">>, <<"4", "2">>},
      {<<"4", "2">>},
      {<<"a", "_", "b">>, <<"R", "2">>} }

CopyThread(id, folder, project_id) ==
    [id |-> id, pc |-> "prepare", source_folder |-> folder, project_id |-> project_id,
     match_set |-> 0, todo |-> {}, copied |-> 0, scanned |-> 0]

\* lines 360-383
_on_copy ==
    /\ \/ /\ folder_var = "" \/ ~IsDir(folder_var)
          /\ ShowDialog("No folder", "return")
          /\ UNCHANGED <<copy_btn, copy_threads, n_copy>>
       \/ \* line 367 reads an attribute that no _display_results has assigned yet:
          \* AttributeError, the handler ends there
          /\ IsDir(folder_var)
          /\ _match_values = 0
          /\ UNCHANGED <<dialog, main_pc, copy_btn, copy_threads, n_copy>>
       \/ /\ IsDir(folder_var)
          /\ _match_values > 0
          /\ match_objs[_match_values].values = {}
          /\ ShowDialog("No serial numbers", "return")
          /\ UNCHANGED <<copy_btn, copy_threads, n_copy>>
       \/ /\ IsDir(folder_var)
          /\ _match_values > 0
          /\ match_objs[_match_values].values # {}
          /\ Strip(project_entry) = <<>>
          /\ ShowDialog("No project", "return")
          /\ UNCHANGED <<copy_btn, copy_threads, n_copy>>
       \/ /\ IsDir(folder_var)
          /\ _match_values > 0
          /\ match_objs[_match_values].values # {}
          /\ Strip(project_entry) # <<>>
          /\ n_copy < MaxCopies
          /\ copy_btn' = "disabled"
          /\ copy_threads' = copy_threads \cup
                {CopyThread(n_copy + 1, folder_var, Strip(project_entry))}
          /\ n_copy' = n_copy + 1
          /\ UNCHANGED <<dialog, main_pc>>
    /\ UNCHANGED <<token_set, project_entry, folder_var, fetch_btn, after_queue,
                   fetch_threads, serial_table, match_objs, _match_values, fs, fetch_log>>
    /\ UNCHANGED <<clientVars, rmtree_log>>

\* line 242: the Copy button, which Tk does not invoke while it is disabled
ClickCopy == MainFree /\ copy_btn = "normal" /\ _on_copy

Replace(threads, w, v) == (threads \ {w}) \cup {v}

\* line 387: the directory os.path.join(source_folder, project_id) names, as
\* the system resolves it from the source folder: how many levels up, then
\* which names down; a project_id starting with "/" replaces the source
\* folder altogether
RECURSIVE Walk(_, _)
Walk(parts, at) ==
    IF parts = <<>> THEN at
    ELSE Walk(Tail(parts),
              IF Head(parts) \in {<<>>, <<".">>} THEN at
              ELSE IF Head(parts) # <<".", ".">> THEN [at EXCEPT !.down = Append(@, Head(parts))]
              ELSE IF at.down # <<>> THEN [at EXCEPT !.down = SubSeq(@, 1, Len(@) - 1)]
              ELSE [at EXCEPT !.up = @ + 1])

DestFolder(project_id) ==
    Walk(Split(project_id, "/"),
         [abs |-> project_id # <<>> /\ Head(project_id) = "/", up |-> 0, down |-> <<>>])

\* the entry `name` of the source folder
ChildFolder(name) == [abs |-> FALSE, up |-> 0, down |-> <<name>>]

\* CopyPrepare without line 389: an existing destination is kept as it is
CopyPrepareKeeps ==
    /\ \E w \in copy_threads :
        /\ w.pc = "prepare"
        /\ DestFolder(w.project_id) = ChildFolder(w.project_id)
        /\ ~(w.project_id \in DOMAIN fs /\ fs[w.project_id].kind = "file")
        /\ fs' = [n \in DOMAIN fs \cup {w.project_id} |->
                     IF n \in DOMAIN fs THEN fs[n] ELSE Dir({})]
        /\ rmtree_log' = rmtree_log
        /\ copy_threads' = Replace(copy_threads, w, [w EXCEPT !.pc = "read"])
    /\ UNCHANGED <<token_set, project_entry, folder_var, fetch_btn, copy_btn, dialog,
                   main_pc, after_queue, fetch_threads, serial_table, match_objs,
                   _match_values, fetch_log, n_copy>>
    /\ UNCHANGED clientVars

\* lines 387-390: the destination is removed if it exists and created anew
CopyPrepare ==
    /\ \E w \in copy_threads :
        /\ w.pc = "prepare"
        /\ DestFolder(w.project_id) = ChildFolder(w.project_id)
        /\ ~(w.project_id \in DOMAIN fs /\ fs[w.project_id].kind = "file")
        /\ fs' = [n \in DOMAIN fs \cup {w.project_id} |->
                     IF n = w.project_id THEN Dir({}) ELSE fs[n]]
        /\ rmtree_log' = IF w.project_id \in DOMAIN fs
                         THEN rmtree_log \cup {DestFolder(w.project_id)}
                         ELSE rmtree_log
        /\ copy_threads' = Replace(copy_threads, w, [w EXCEPT !.pc = "read"])
    /\ UNCHANGED <<token_set, project_entry, folder_var, fetch_btn, copy_btn, dialog,
                   main_pc, after_queue, fetch_threads, serial_table, match_objs,
                   _match_values, fetch_log, n_copy>>
    /\ UNCHANGED clientVars

\* lines 387-390, 426-434: project_id names the source folder itself (".") or
\* one of its ancestors ("..").  The path exists, rmtree removes everything
\* below it, the entries of the source folder included, and then raises on
\* the final rmdir of a path ending in "." or ".."; the error callback is
\* scheduled
CopyPrepareEmptiesFolder ==
    /\ \E w \in copy_threads :
        /\ w.pc = "prepare"
        /\ ~DestFolder(w.project_id).abs
        /\ DestFolder(w.project_id).down = <<>>
        /\ fs' = <<>>
        /\ rmtree_log' = rmtree_log \cup {DestFolder(w.project_id)}
        /\ copy_threads' = copy_threads \ {w}
        /\ after_queue' = Append(after_queue,
              [Callback("copy_error") EXCEPT !.dest = w.project_id])
    /\ UNCHANGED <<token_set, project_entry, folder_var, fetch_btn, copy_btn, dialog,
                   main_pc, fetch_threads, serial_table, match_objs, _match_values,
                   fetch_log, n_copy>>
    /\ UNCHANGED clientVars

\* lines 387-390: project_id is an absolute path, which os.path.join returns
\* as it is.  The directory lies outside the entries of the source folder; it
\* is removed if it exists and created, and the matching files are copied
\* there
CopyPrepareOutside ==
    /\ \E w \in copy_threads :
        /\ w.pc = "prepare"
        /\ DestFolder(w.project_id).abs
        /\ \E exists \in BOOLEAN :
              rmtree_log' = IF exists THEN rmtree_log \cup {DestFolder(w.project_id)}
                            ELSE rmtree_log
        /\ copy_threads' = Replace(copy_threads, w, [w EXCEPT !.pc = "read"])
    /\ UNCHANGED <<token_set, project_entry, folder_var, fetch_btn, copy_btn, dialog,
                   main_pc, after_queue, fetch_threads, serial_table, match_objs,
                   _match_values, fs, fetch_log, n_copy>>
    /\ UNCHANGED clientVars

\* lines 388-390, 426-434: rmtree of a regular file, or rmtree or makedirs
\* refused by the system, raises; the error callback is scheduled
CopyPrepareFails ==
    /\ \E w \in copy_threads :
        /\ w.pc = "prepare"
        /\ copy_threads' = copy_threads \ {w}
        /\ after_queue' = Append(after_queue,
              [Callback("copy_error") EXCEPT !.dest = w.project_id])
    /\ UNCHANGED <<token_set, project_entry, folder_var, fetch_btn, copy_btn, dialog,
                   main_pc, fetch_threads, serial_table, match_objs, _match_values, fs,
                   fetch_log, n_copy>>
    /\ UNCHANGED <<clientVars, rmtree_log>>

\* lines 392-398: the worker takes self._match_values and lists the folder
CopyRead ==
    /\ \E w \in copy_threads :
        /\ w.pc = "read"
        /\ copy_threads' = Replace(copy_threads, w,
              [w EXCEPT !.pc = "scan", !.match_set = _match_values, !.todo = DOMAIN fs])
    /\ UNCHANGED <<token_set, project_entry, folder_var, fetch_btn, copy_btn, dialog,
                   main_pc, after_queue, fetch_threads, serial_table, match_objs,
                   _match_values, fs, fetch_log, n_copy>>
    /\ UNCHANGED <<clientVars, rmtree_log>>

\* lines 398-412: one iteration of the loop over the listing, copy2 succeeding
CopyScanFile ==
    /\ \E w \in copy_threads :
        /\ w.pc = "scan"
        /\ \E filename \in w.todo :
            LET isfile == filename \in DOMAIN fs /\ fs[filename].kind = "file"
                hit == isfile /\ Matches(filename, match_objs[w.match_set].values)
            IN /\ fs' = IF hit /\ w.project_id \in DOMAIN fs
                        THEN [fs EXCEPT ![w.project_id].files = @ \cup {filename}]
                        ELSE fs
               /\ copy_threads' = Replace(copy_threads, w,
                     [w EXCEPT !.todo = @ \ {filename},
                               !.scanned = IF isfile THEN @ + 1 ELSE @,
                               !.copied = IF hit THEN @ + 1 ELSE @])
    /\ UNCHANGED <<token_set, project_entry, folder_var, fetch_btn, copy_btn, dialog,
                   main_pc, after_queue, fetch_threads, serial_table, match_objs,
                   _match_values, fetch_log, n_copy>>
    /\ UNCHANGED <<clientVars, rmtree_log>>

\* lines 408, 426-434: copy2 of a matching file raises; the files copied so
\* far stay and the error callback is scheduled
CopyFileFails ==
    /\ \E w \in copy_threads :
        /\ w.pc = "scan"
        /\ \E filename \in w.todo :
            /\ filename \in DOMAIN fs /\ fs[filename].kind = "file"
            /\ Matches(filename, match_objs[w.match_set].values)
        /\ copy_threads' = copy_threads \ {w}
        /\ after_queue' = Append(after_queue,
              [Callback("copy_error") EXCEPT !.dest = w.project_id])
    /\ UNCHANGED <<token_set, project_entry, folder_var, fetch_btn, copy_btn, dialog,
                   main_pc, fetch_threads, serial_table, match_objs, _match_values, fs,
                   fetch_log, n_copy>>
    /\ UNCHANGED <<clientVars, rmtree_log>>

\* lines 414-425: the listing is exhausted, the counts are reported
CopyFinish ==
    /\ \E w \in copy_threads :
        /\ w.pc = "scan"
        /\ w.todo = {}
        /\ copy_threads' = copy_threads \ {w}
        /\ after_queue' = Append(after_queue,
              [Callback("copy_done") EXCEPT !.copied = w.copied, !.scanned = w.scanned,
                                            !.dest = w.project_id,
                                            !.match_set = w.match_set])
    /\ UNCHANGED <<token_set, project_entry, folder_var, fetch_btn, copy_btn, dialog,
                   main_pc, fetch_threads, serial_table, match_objs, _match_values, fs,
                   fetch_log, n_copy>>
    /\ UNCHANGED <<clientVars, rmtree_log>>

\* lines 419-425: the callback of a finished copy
RunCopyDone ==
    /\ MainFree
    /\ after_queue # <<>>
    /\ Head(after_queue).kind = "copy_done"
    /\ after_queue' = Tail(after_queue)
    /\ copy_btn' = "normal"
    /\ UNCHANGED <<token_set, project_entry, folder_var, fetch_btn, dialog, main_pc,
                   fetch_threads, copy_threads, serial_table, match_objs, _match_values,
                   fs, fetch_log, n_copy>>
    /\ UNCHANGED <<clientVars, rmtree_log>>

\* lines 428-434: the callback of a failed copy opens its message box
RunCopyError ==
    /\ MainFree
    /\ after_queue # <<>>
    /\ Head(after_queue).kind = "copy_error"
    /\ after_queue' = Tail(after_queue)
    /\ ShowDialog("Copy Error", "reset_copy")
    /\ UNCHANGED <<token_set, project_entry, folder_var, fetch_btn, copy_btn,
                   fetch_threads, copy_threads, serial_table, match_objs, _match_values,
                   fs, fetch_log, n_copy>>
    /\ UNCHANGED <<clientVars, rmtree_log>>

\* lines 426-434: as in _fetch_data, the lambda reads exc after the worker
\* may have left the except block; then str(exc) raises NameError, no dialog
\* is shown and line 432 is not reached
RunCopyErrorUnbound ==
    /\ MainFree
    /\ after_queue # <<>>
    /\ Head(after_queue).kind = "copy_error"
    /\ after_queue' = Tail(after_queue)
    /\ UNCHANGED <<token_set, project_entry, folder_var, fetch_btn, copy_btn, dialog,
                   main_pc, fetch_threads, copy_threads, serial_table, match_objs,
                   _match_values, fs, fetch_log, n_copy>>
    /\ UNCHANGED <<clientVars, rmtree_log>>

(***************************************************************************)
(* _copy_files on its own: any small source folder and match set           *)
(***************************************************************************)
InitCopy ==
    /\ IdlePage /\ IdleBatch /\ IdleExtract /\ envelope = "list"
    /\ token_set = TRUE /\ folder_var = "photos"
    /\ \E project_id \in {<<"1">>, <<"2">>} :
        /\ project_entry = project_id
        /\ copy_threads = {CopyThread(1, "photos", project_id)}
        /\ fetch_log = <<[project |-> IntOf(project_id), outcome |-> "ok"]>>
    /\ fetch_btn = "normal" /\ copy_btn = "disabled" /\ dialog = "none"
    /\ main_pc = MainIdle /\ after_queue = <<>>
    /\ fetch_threads = {}
    /\ serial_table = <<>>
    /\ \E values \in MatchSetSamples :
          match_objs = <<[values |-> values, fetch |-> 1, complete |-> TRUE]>>
    /\ _match_values = 1
    /\ \E names \in {S \in SUBSET SampleNames : Cardinality(S) <= MaxFiles} :
          fs = [n \in names |-> SampleEntry(n)]
    /\ n_copy = 1 /\ rmtree_log = {}

NextCopy ==
    \/ CopyPrepare
    \/ CopyPrepareFails
    \/ CopyRead
    \/ CopyScanFile
    \/ CopyFileFails
    \/ CopyFinish
    \/ RunCopyDone
    \/ RunCopyError
    \/ RunCopyErrorUnbound
    \/ DismissDialog

SpecCopy == InitCopy /\ [][NextCopy]_vars

(***************************************************************************)
(* Copy runs repeated on one folder, the user dropping files into the      *)
(* destination between the runs                                            *)
(***************************************************************************)
StrayNames == {NameU, NameP}
RecopyNames == {NameF, NameU, NameP, NameOld, <<"2">>}

\* lines 387-388: what a run finds at the destination is whatever earlier
\* runs and the user left there; the user adds a file while no copy runs
AddToDestination ==
    /\ copy_btn = "normal" /\ copy_threads = {}
    /\ Strip(project_entry) \in DOMAIN fs
    /\ fs[Strip(project_entry)].kind = "dir"
    /\ \E name \in StrayNames \ fs[Strip(project_entry)].files :
          fs' = [fs EXCEPT ![Strip(project_entry)].files = @ \cup {name}]
    /\ UNCHANGED <<token_set, project_entry, folder_var, fetch_btn, copy_btn, dialog,
                   main_pc, after_queue, fetch_threads, copy_threads, serial_table,
                   match_objs, _match_values, fetch_log, n_copy>>
    /\ UNCHANGED <<clientVars, rmtree_log>>

InitRecopy ==
    /\ IdlePage /\ IdleBatch /\ IdleExtract /\ envelope = "list"
    /\ token_set = TRUE /\ folder_var = "photos"
    /\ \E project_id \in {<<"1">>, <<"2">>} :
        /\ project_entry = project_id
        /\ fetch_log = <<[project |-> IntOf(project_id), outcome |-> "ok"]>>
    /\ fetch_btn = "normal" /\ copy_btn = "normal" /\ dialog = "none"
    /\ main_pc = MainIdle /\ after_queue = <<>>
    /\ fetch_threads = {} /\ copy_threads = {}
    /\ serial_table = <<>>
    /\ \E values \in MatchSetSamples :
          match_objs = <<[values |-> values, fetch |-> 1, complete |-> TRUE]>>
    /\ _match_values = 1
    /\ \E names \in {S \in SUBSET RecopyNames : Cardinality(S) <= MaxFiles} :
          fs = [n \in names |-> SampleEntry(n)]
    /\ n_copy = 0 /\ rmtree_log = {}

NextRecopy ==
    \/ ClickCopy
    \/ AddToDestination
    \/ NextCopy

SpecRecopy == InitRecopy /\ [][NextRecopy]_vars

(***************************************************************************)
(* Copy runs for whatever text the project-id entry holds: after a fetch   *)
(* of project 1 the user has typed something else into the entry           *)
(***************************************************************************)
PathTexts == {<<"2">>, <<" ", "2">>, <<".">>, <<".", ".">>, <<"/", "t">>}

InitCopyPath ==
    /\ IdlePage /\ IdleBatch /\ IdleExtract /\ envelope = "list"
    /\ token_set = TRUE /\ folder_var = "photos"
    /\ project_entry \in PathTexts
    /\ fetch_log = <<[project |-> 1, outcome |-> "ok"]>>
    /\ fetch_btn = "normal" /\ copy_btn = "normal" /\ dialog = "none"
    /\ main_pc = MainIdle /\ after_queue = <<>>
    /\ fetch_threads = {} /\ copy_threads = {}
    /\ serial_table = <<>>
    /\ \E values \in MatchSetSamples :
          match_objs = <<[values |-> values, fetch |-> 1, complete |-> TRUE]>>
    /\ _match_values = 1
    /\ \E names \in {S \in SUBSET RecopyNames : Cardinality(S) <= MaxFiles} :
          fs = [n \in names |-> SampleEntry(n)]
    /\ n_copy = 0 /\ rmtree_log = {}

NextCopyPath ==
    \/ ClickCopy
    \/ CopyPrepareEmptiesFolder
    \/ CopyPrepareOutside
    \/ NextCopy

SpecCopyPath == InitCopyPath /\ [][NextCopyPath]_vars

(***************************************************************************)
(* The application: user events, workers and callbacks interleaved         *)
(***************************************************************************)
InitApp ==
    /\ IdlePage /\ IdleBatch /\ IdleExtract /\ envelope = "list"
    /\ token_set \in BOOLEAN
    /\ project_entry = <<>> /\ folder_var = ""
    /\ fetch_btn = "normal" /\ copy_btn = "normal" /\ dialog = "none"
    /\ main_pc = MainIdle /\ after_queue = <<>>
    /\ fetch_threads = {} /\ copy_threads = {}
    /\ serial_table = <<>> /\ match_objs = <<>> /\ _match_values = 0
    /\ fs = [n \in {NameF, NameU} |-> SampleEntry(n)]
    /\ fetch_log = <<>> /\ n_copy = 0 /\ rmtree_log = {}

NextApp ==
    \/ EditProjectEntry
    \/ _browse_folder
    \/ ClickFetch
    \/ PressReturn
    \/ FetchReturns
    \/ FetchRaises
    \/ DisplayBegin
    \/ DisplayRecord
    \/ DisplayEnd
    \/ RunFetchError
    \/ RunFetchErrorUnbound
    \/ DismissDialog
    \/ ClickCopy
    \/ CopyPrepare
    \/ CopyPrepareFails
    \/ CopyRead
    \/ CopyScanFile
    \/ CopyFileFails
    \/ CopyFinish
    \/ RunCopyDone
    \/ RunCopyError
    \/ RunCopyErrorUnbound

SpecApp == InitApp /\ [][NextApp]_vars

(***************************************************************************)
(* Properties of the client.                                               *)
(***************************************************************************)
Iota(n) == [i \in 1..n |-> i]

PageSizes == [k \in DOMAIN page_log |-> page_log[k].n]

\* C1 as stated: pages of sizes 100, 100, 37 at limit 100 take exactly 4
\* requests, the 4th answered with an empty page, and return 237 items.
C1_FourRequests ==
    (page_pc = "returned" /\ limit = 100 /\ total = 237)
        => /\ Len(page_log) = 4
           /\ page_log[4].n = 0
           /\ Len(page_ret) = 237

\* C1 amended: pages of sizes 100, 100, 37 at limit 100 take exactly 3
\* requests, at offsets 0, 100 and 200, the short third page ending the loop,
\* and the 237 items are returned in the order served.
C1_ThreeRequests ==
    (page_pc = "returned" /\ limit = 100 /\ total = 237)
        => /\ PageSizes = <<100, 100, 37>>
           /\ [k \in DOMAIN page_log |-> page_log[k].offset] = <<0, 100, 200>>
           /\ page_ret = Iota(237)

C1_Witness == page_pc = "returned" /\ limit = 100 /\ total = 237

\* C2: when the last non-empty page is full (the resource holds a positive
\* multiple of limit records), exactly one request follows it, at offset
\* total, it is answered with an empty page, the loop stops there, and the
\* result is every record in the order served.
C2_OneExtraRoundTrip ==
    (page_pc = "returned" /\ total > 0 /\ total % limit = 0)
        => LET n == Len(page_log) IN
           /\ n = total \div limit + 1
           /\ \A k \in 1..(n - 1) : page_log[k].n = limit
           /\ page_log[n].n = 0
           /\ page_log[n].offset = total
           /\ \A k \in 1..n : page_log[k].offset = (k - 1) * limit
           /\ page_ret = Iota(total)

C2_Witness ==
    /\ page_pc = "returned" /\ limit = 2 /\ total = 4
    /\ PageSizes = <<2, 2, 0>>

BadPage(e) == ~Ok(e.status)
BadBatch(e) == ~Ok(e.status) /\ e.status # 404

\* C3: in both fetchers the first response with a non-success status (a 404
\* on a batch excepted) is the last request of the call, the call ends with
\* an error, and nothing is returned to the caller; a call that has not met
\* such a response has not raised.
C3_FirstFailureAborts ==
    /\ \A k \in DOMAIN page_log :
          BadPage(page_log[k]) => k = Len(page_log) /\ page_pc = "raised"
    /\ page_pc = "raised" =>
          /\ page_log # <<>> /\ BadPage(page_log[Len(page_log)])
          /\ page_ret = <<>>
    /\ \A k \in DOMAIN batch_log :
          BadBatch(batch_log[k]) => k = Len(batch_log) /\ batch_pc = "raised"
    /\ batch_pc = "raised" =>
          /\ batch_log # <<>> /\ BadBatch(batch_log[Len(batch_log)])
          /\ batch_ret = <<>>

C3_Witness ==
    /\ page_pc = "raised" /\ Len(page_log) = 3 /\ Len(all_items) = 200
    /\ page_ret = <<>>

RECURSIVE Flatten(_)
Flatten(ss) == IF ss = <<>> THEN <<>> ELSE Head(ss) \o Flatten(Tail(ss))

Batches == [k \in DOMAIN batch_log |-> batch_log[k].batch]

\* C7: the batches requested are consecutive slices of the id list, each of
\* 1 to 100 ids and every one but the last of a completed call of exactly
\* 100; a call that returns has issued ceil(n/100) requests whose batches
\* concatenate to the id list, and none at all for an empty list, whose
\* result is empty.
C7_Batching ==
    LET n == Len(ids)
        m == Len(batch_log)
    IN /\ Flatten(Batches) = SubSeq(ids, 1, Min(n, m * 100))
       /\ \A k \in 1..m : Len(Batches[k]) \in 1..100
       /\ \A k \in 1..(m - 1) : Len(Batches[k]) = 100
       /\ batch_pc = "returned" =>
             /\ m = (n + 99) \div 100
             /\ Flatten(Batches) = ids
             /\ n = 0 => batch_ret = <<>>

C7_Witness ==
    /\ batch_pc = "returned" /\ Len(ids) = 250
    /\ [k \in DOMAIN batch_log |-> Len(batch_log[k].batch)] = <<100, 100, 50>>

RECURSIVE FlattenNon404(_)
FlattenNon404(log) ==
    IF log = <<>> THEN <<>>
    ELSE (IF Head(log).status = 404 THEN <<>> ELSE Head(log).batch)
            \o FlattenNon404(Tail(log))

\* C8: a batch answered 404 adds no record and does not end the call: the
\* call never raises on a 404, the records accumulated are those of the
\* batches not answered 404, in batch order, and a call that returns has
\* requested every batch, the ones after a 404 included.
C8_SkipOn404 ==
    /\ batch_pc = "raised" => batch_log[Len(batch_log)].status # 404
    /\ batch_pc \in {"batching", "returned"} => all_details = FlattenNon404(batch_log)
    /\ batch_pc = "returned" =>
          /\ batch_ret = FlattenNon404(batch_log)
          /\ Len(batch_log) = (Len(ids) + 99) \div 100

C8_Witness ==
    /\ batch_pc = "returned" /\ Len(ids) = 250
    /\ [k \in DOMAIN batch_log |-> batch_log[k].status] = <<200, 404, 200>>
    /\ batch_ret = Iota(100) \o [i \in 1..50 |-> 200 + i]

\* C4: no id returned by extract_serial_ids is empty or made of whitespace
\* only, whatever the shape of the value it came from.
C4_NoBlankIds ==
    ex_pc = "returned" => \A k \in DOMAIN ex_out : Strip(ex_out[k]) # <<>>

\* The candidate key that governs a record: the first holding a non-null value
GoverningKeys(item) ==
    {k \in DOMAIN candidate_keys :
        /\ Get(item, candidate_keys[k]) # PyNone
        /\ \A j \in 1..(k - 1) : Get(item, candidate_keys[j]) = PyNone}

\* What a record contributes: the ids of its governing key, none without one
Contribution(item) ==
    IF Tag(item) # "dict" \/ GoverningKeys(item) = {} THEN <<>>
    ELSE LET val == Get(item, candidate_keys[CHOOSE k \in GoverningKeys(item) : TRUE])
         IN CASE Tag(val) = "str" ->
                    LET parts == Split(Val(val), ",")
                    IN [i \in DOMAIN parts |-> Strip(parts[i])]
              [] Tag(val) = "list" ->
                    LET kept == SelectSeq(Val(val), NotNone)
                    IN [i \in DOMAIN kept |-> Str(kept[i])]
              [] OTHER -> <<Str(val)>>

Contributed == Flatten([i \in DOMAIN equipment |-> Contribution(equipment[i])])

FirstIndex(s, x) == CHOOSE k \in DOMAIN s : s[k] = x /\ \A j \in 1..(k - 1) : s[j] # x

\* C5: the list returned holds each non-empty id contributed by the records
\* exactly once, in the order of first occurrence, a record contributing only
\* the ids of its first candidate key with a non-null value and nothing when
\* it has none.
C5_FirstOccurrenceOrder ==
    ex_pc = "returned" =>
        /\ Range(ex_out) = Range(Contributed) \ {<<>>}
        /\ \A i, j \in DOMAIN ex_out :
              i < j => /\ ex_out[i] # ex_out[j]
                       /\ FirstIndex(Contributed, ex_out[i]) < FirstIndex(Contributed, ex_out[j])

C5_Witness ==
    /\ ex_pc = "returned"
    /\ Len(equipment) = 2
    /\ equipment[1] = PyDict([k \in {"serial_number_ids", "id"} |->
                                IF k = "id" THEN PyInt(9) ELSE PyStr(<<" ", "2", " ", ",", "1">>)])
    /\ equipment[2] = PyDict([k \in {"serial_number_ids"} |-> PyStr(<<"1", ",", "2">>)])
    /\ ex_out = << <<"2">>, <<"1">> >>

\* The parts of s between commas: the maximal comma-free stretches
CommaParts(s) ==
    {SubSeq(s, i, j) : <<i, j>> \in
        {ij \in (1..(Len(s) + 1)) \X (0..Len(s)) :
            /\ ij[2] >= ij[1] - 1
            /\ \A k \in ij[1]..ij[2] : s[k] # ","
            /\ ij[1] = 1 \/ s[ij[1] - 1] = ","
            /\ ij[2] = Len(s) \/ s[ij[2] + 1] = ","}}

\* The non-null values of the match-set fields of the records loaded
MatchFieldValues ==
    {Get(serial_table[i], f) : i \in DOMAIN serial_table, f \in Range(MatchFields)}
        \ {PyNone}

C6_NoStaleMatchSet ==
    \A w \in copy_threads :
        w.pc = "scan" =>
            LET o == match_objs[w.match_set] IN
            /\ o.complete
            /\ IsInt(w.project_id)
            /\ fetch_log[o.fetch].project = IntOf(w.project_id)
            /\ \A k \in DOMAIN fetch_log :
                  fetch_log[k].project = IntOf(w.project_id) => k <= o.fetch

\* The tokens of a name: its maximal stretches free of separators
Tokens(name) ==
    {SubSeq(name, i, j) : <<i, j>> \in
        {ij \in (1..Len(name)) \X (1..Len(name)) :
            /\ ij[1] <= ij[2]
            /\ \A k \in ij[1]..ij[2] : name[k] \notin {"_", "-", ".", " ", "\t"}
            /\ ij[1] = 1 \/ name[ij[1] - 1] \in {"_", "-", ".", " ", "\t"}
            /\ ij[2] = Len(name) \/ name[ij[2] + 1] \in {"_", "-", ".", " ", "\t"}}}

RegularFiles == {n \in DOMAIN fs : fs[n].kind = "file"}

ShouldCopy(filename, match_set) ==
    \/ Tokens(SplitExt(filename)) \cap match_set # {}
    \/ SplitExt(filename) \in match_set

\* C9: of the entries a copy worker has gone through, the destination holds,
\* under their own names, exactly the regular files with a token or the
\* whole extension-stripped name in the match set, never a subdirectory;
\* scanned counts the regular files seen and copied the ones that matched,
\* and a copy that completes reports these counts for the whole folder.
C9_CopyIffMatch ==
    /\ \A w \in copy_threads :
          w.pc = "scan" =>
            LET seen == (DOMAIN fs \ w.todo) \cap RegularFiles
                hits == {n \in seen : ShouldCopy(n, match_objs[w.match_set].values)}
            IN /\ fs[w.project_id] = Dir(hits)
               /\ w.scanned = Cardinality(seen)
               /\ w.copied = Cardinality(hits)
    /\ \A k \in DOMAIN after_queue :
          after_queue[k].kind = "copy_done" =>
            LET c == after_queue[k]
                hits == {n \in RegularFiles : ShouldCopy(n, match_objs[c.match_set].values)}
            IN /\ fs[c.dest] = Dir(hits)
               /\ c.scanned = Cardinality(RegularFiles)
               /\ c.copied = Cardinality(hits)

C9_Witness ==
    /\ after_queue # <<>>
    /\ after_queue[1].kind = "copy_done"
    /\ after_queue[1].scanned = 3 /\ after_queue[1].copied = 2
    /\ match_objs[1].values = {<<"F", "1", "0", "5", "3", "0", "4">>, <<"4", "2">>}
    /\ DOMAIN fs = {NameF, NameU, NameP, <<"2">>}
    /\ fs[<<"2">>] = Dir({NameF, NameP})

\* C11: a copy run starts from an empty destination and a completed run
\* leaves in it exactly the files it copied.  Right after lines 387-390
\* the destination is an empty directory, whatever earlier runs or the user
\* left there; during the scan it holds only files this run has visited and
\* matched; when the completion callback is scheduled it holds exactly the
\* matching regular files of the source folder.
C11_FromScratch ==
    /\ \A w \in copy_threads :
          /\ w.pc = "read" => fs[w.project_id] = Dir({})
          /\ w.pc = "scan" =>
                /\ fs[w.project_id].kind = "dir"
                /\ fs[w.project_id].files =
                      {n \in RegularFiles \ w.todo :
                          ShouldCopy(n, match_objs[w.match_set].values)}
    /\ \A i \in DOMAIN after_queue :
          after_queue[i].kind = "copy_done" =>
             fs[after_queue[i].dest] =
                Dir({n \in RegularFiles :
                        ShouldCopy(n, match_objs[after_queue[i].match_set].values)})

\* the second run on a folder with a matching file has just emptied the
\* destination the first run wrote to
C11_Witness ==
    \E w \in copy_threads :
        /\ w.id = 2 /\ w.pc = "read"
        /\ fs[w.project_id] = Dir({})
        /\ \E n \in RegularFiles : ShouldCopy(n, match_objs[_match_values].values)

\* C12: a worker that ended in an error does not leave its button disabled.
\* In a state where no fetch worker lives, no callback of a fetch is pending
\* and the main thread is in no fetch callback or error dialog, nothing the
\* program still has to do can enable the Fetch button, so by then it is
\* enabled; likewise for the copy worker and the Copy Matching Files button.
PendingKinds == {after_queue[i].kind : i \in DOMAIN after_queue}

FetchQuiet ==
    /\ fetch_threads = {}
    /\ PendingKinds \cap {"display", "fetch_error"} = {}
    /\ main_pc.at # "display"
    /\ ~(main_pc.at = "dialog" /\ main_pc.then = "reset_fetch")

CopyQuiet ==
    /\ copy_threads = {}
    /\ PendingKinds \cap {"copy_done", "copy_error"} = {}
    /\ ~(main_pc.at = "dialog" /\ main_pc.then = "reset_copy")

C12_ButtonsReset ==
    /\ FetchQuiet => fetch_btn = "normal"
    /\ CopyQuiet => copy_btn = "normal"

\* C13: at any time at most one _fetch_data thread and at most one
\* _copy_files thread is alive, whatever the user clicks or presses.
C13_OneWorkerOfAKind ==
    /\ Cardinality(fetch_threads) <= 1
    /\ Cardinality(copy_threads) <= 1

\* C14: every directory the copy worker removes is a direct child of the
\* source folder: resolved from the source folder, the path handed to
\* shutil.rmtree goes no level up and exactly one name down, whatever text
\* the project-id entry held when Copy was pressed.
C14_DestIsDirectChild ==
    \A d \in rmtree_log : ~d.abs /\ d.up = 0 /\ Len(d.down) = 1

====
